---- MODULE Spec2Model ----
(***************************************************************************)
(* A model of the two crawl orchestrators of the WebsiteScraper            *)
(* repository:                                                             *)
(*   - scrape_website (code/main.py): the resumable breadth-first crawler  *)
(*     with its frontier checkpoint files and its size-bounded flushes;    *)
(*   - main (code/scraper-mongo-db/main.py): the thread-pool orchestrator  *)
(*     that scrapes the sitemap entries and upserts batches into MongoDB.  *)
(* A behaviour runs one of the two programs (variable prog), the crawler   *)
(* possibly several times in a row, each run loading the files the former  *)
(* run left on disk. Three functions are also run on their own, each      *)
(* under a specification of its own: save_pages_batch (SinkSpec),          *)
(* scrape_page with extract_main_content (PageSpec),                       *)
(* _extract_images_from_content (ImageSpec), validate_page_content         *)
(* (ValidatorSpec) and the clean-up of _get_clean_text (TextSpec).         *)
(* ScenarioSpec has scrape_website and scrape_page process one page,       *)
(* ResumeSpec runs the crawler on a site of more pages, and FairSpec runs  *)
(* it with the fairness that its termination needs.                        *)
(***************************************************************************)
EXTENDS Integers, Sequences, FiniteSets, TLC

VARIABLES
    prog,               \* which entry point runs: "crawl" or "pool"
    \* ---- disk (survives a run) ----
    visited_file,       \* input/visited_urls.txt: [exists, lines]
    pending_file,       \* input/pending_urls.txt: [exists, lines]
    output,             \* output/scraped_data_*.json, in the order written
    \* ---- scrape_website: parameters and locals ----
    pc,                 \* position of the crawler process
    max_pages,
    visited,
    to_visit,
    data,
    batch_index,
    count,
    total_scraped_size,
    \* ---- history of the crawler (not read by the program) ----
    hist,
    \* ---- main of scraper-mongo-db: locals ----
    sitemap_entries,    \* the loaded sitemap: the categories with their entries
    ppc,                \* position of the main thread
    cat_idx,            \* the category the scheduling loop or the final loop is at
    tasks,              \* future_to_data, in submission order, with each future's state
    scraped_pages_by_category,
    all_scraped_pages,
    failed_count,
    total_entries,
    store,              \* the MongoDB collection: _id -> document
    in_flight,          \* the calls of save_pages_batch that have not returned
    \* ---- history of the pool (not read by the program) ----
    phist,
    \* ---- WebScraper.scrape_page on one page ----
    full_soup,          \* the parsed page: what its selectors and blocks match
    scrape_result,      \* what scrape_page returned for it
    \* ---- WebScraper._extract_images_from_content on one content ----
    content,            \* the img tags of the main content, in document order
    images,             \* the list it returned
    \* ---- ContentQualityValidator.validate_page_content on one page ----
    page_text,          \* page_data.text
    validation_result,  \* the dictionary it returned
    \* ---- the whitespace clean-up of WebScraper._get_clean_text ----
    raw_text,           \* content.get_text('\n', strip=True)
    clean_text          \* the string it returned

crawlVars == <<visited_file, pending_file, output, pc, max_pages, visited,
               to_visit, data, batch_index, count, total_scraped_size, hist>>
poolVars == <<sitemap_entries, ppc, cat_idx, tasks, scraped_pages_by_category,
              all_scraped_pages, failed_count, total_entries, store, in_flight,
              phist>>
validatorVars == <<page_text, validation_result>>
textVars == <<raw_text, clean_text>>
pageVars == <<full_soup, scrape_result, content, images, validatorVars, textVars>>
vars == <<prog, crawlVars, poolVars, pageVars>>

(***************************************************************************)
(* URLs are strings, modelled as sequences of characters, so that the      *)
(* prefix test of line 123 and the strip() of the loaders are computed.    *)
(***************************************************************************)
base_url == <<"b", "/">>
UrlP     == <<"b", "/", "p">>
UrlPsp   == <<"b", "/", "p", " ">>      \* href="p " : urljoin keeps the trailing blank
UrlOther == <<"o", "/">>                \* another site

\* What urljoin(url, href) can return for the links of a page.
Universe == {base_url, UrlP, UrlPsp, UrlOther}

\* The <a href> lists of a fetched page, already resolved by urljoin.
LinkLists ==
    {<<>>} \cup {<<u>> : u \in Universe}
           \cup {<<u, v>> : u \in Universe, v \in Universe}

\* Two more pages of the site, for the runs that resume a crawl.
UrlQ == <<"b", "/", "q">>
UrlR == <<"b", "/", "r">>

\* The <a href> lists of the pages of that larger site.
ResumeLinkLists ==
    {<<>>} \cup {<<u>> : u \in {UrlPsp, UrlQ, UrlR}}
           \cup {<<UrlPsp, UrlQ>>}

\* The <a href> lists that the pages of the site crawled by prog can have.
SiteLinks == IF prog = "resume" THEN ResumeLinkLists ELSE LinkLists

\* len(json.dumps(record).encode()) of a scraped record.
RecordSizes == {3, 6}

\* response.status_code
Statuses == {200, 204, 404}

\* The values of max_pages a run is started with.
MaxPagesChoices == {0, 2}

\* Thresholds of main.py, scaled down to the record sizes above.
HUNDRED_MB == 8
MAX_TOTAL_SIZE == 9

\* The settings of scraper-mongo-db/main.py, scaled down to the sitemaps below.
max_workers == 2
batch_size == 2

\* The sitemaps main is run on: sitemap.json as load_sitemap_json returns it,
\* the categories in the order of the file.
Sitemaps ==
    { << [category |-> "a", entries |-> <<"/a/1", "/a/2", "/a/3">>],
         [category |-> "b", entries |-> <<"/b/1">>] >>,
      << [category |-> "a", entries |-> <<"/a/1", "/a/1">>],
         [category |-> "b", entries |-> <<"/b/1", "/b/2">>] >> }

\* Bounds of the model.
MaxRuns == 2
MaxKills == 1
MaxIOFail == 1
MaxCalls == 2
MaxElements == 2
MaxImages == 2
MaxTextLen == 6

-----------------------------------------------------------------------------
(* Helpers on sequences and strings *)

Range(s) == {s[i] : i \in DOMAIN s}

NoDuplicates(s) == \A i, j \in DOMAIN s : i # j => s[i] # s[j]

\* str.startswith
StartsWith(s, p) == Len(s) >= Len(p) /\ SubSeq(s, 1, Len(p)) = p

\* str.isspace, for the characters of the model
IsSpace(c) == c \in {" ", "\t", "\n", "\r"}

RECURSIVE lstrip(_)
lstrip(s) == IF s # <<>> /\ IsSpace(Head(s)) THEN lstrip(Tail(s)) ELSE s

RECURSIVE rstrip(_)
rstrip(s) ==
    IF s # <<>> /\ IsSpace(s[Len(s)]) THEN rstrip(SubSeq(s, 1, Len(s) - 1)) ELSE s

\* str.strip
strip(s) == rstrip(lstrip(s))

\* ord(c) for the characters of the model
Ord(c) == CASE c = " " -> 32
            [] c = "/" -> 47
            [] c = "b" -> 98
            [] c = "o" -> 111
            [] c = "p" -> 112
            [] c = "q" -> 113
            [] c = "r" -> 114

\* Python's < on str: lexicographic by code point
RECURSIVE StrLess(_, _)
StrLess(s, t) ==
    IF t = <<>> THEN FALSE
    ELSE IF s = <<>> THEN TRUE
    ELSE IF Ord(Head(s)) # Ord(Head(t)) THEN Ord(Head(s)) < Ord(Head(t))
    ELSE StrLess(Tail(s), Tail(t))

\* sorted(S) for a set of strings
RECURSIVE sorted(_)
sorted(S) ==
    IF S = {} THEN <<>>
    ELSE LET m == CHOOSE x \in S : \A y \in S \ {x} : StrLess(x, y)
         IN  <<m>> \o sorted(S \ {m})

RECURSIVE SumSizes(_)
SumSizes(d) == IF d = <<>> THEN 0 ELSE Head(d).size + SumSizes(Tail(d))

\* len(json.dumps(data).encode()): "[" records joined by ", " "]"
JsonListSize(d) ==
    IF d = <<>> THEN 2 ELSE 2 + SumSizes(d) + 2 * (Len(d) - 1)

\* line 94 with to_visit[0] in place of popleft(): the entry stays
RemoveAt_Peek(s, i) == s

\* s without its entry at index i
RemoveAt(s, i) == SubSeq(s, 1, i - 1) \o SubSeq(s, i + 1, Len(s))

-----------------------------------------------------------------------------
(* Frontier files: main.py, lines 21-56 *)

NoFile == [exists |-> FALSE, lines |-> <<>>]

load_visited(f) ==
    IF f.exists
    THEN {strip(f.lines[i]) : i \in DOMAIN f.lines} \ {<<>>}
    ELSE {}

save_visited(v) == [exists |-> TRUE, lines |-> sorted(v)]

RECURSIVE StripLines(_)
StripLines(ls) ==
    IF ls = <<>> THEN <<>>
    ELSE LET url == strip(Head(ls))
         IN  (IF url # <<>> THEN <<url>> ELSE <<>>) \o StripLines(Tail(ls))

load_pending(f) == IF f.exists THEN StripLines(f.lines) ELSE <<>>

save_pending(p) == [exists |-> TRUE, lines |-> p]

-----------------------------------------------------------------------------
(* scrape_website: main.py, lines 69-152 *)

Running == {"loop", "flush", "save_visited", "save_pending",
            "final", "final_save_visited", "final_save_pending"}
Stopped == {"idle", "done", "error", "killed"}

\* hist.last when requests.get raised instead of returning
Raised == 0

InitHist ==
    [run       |-> 0,       \* runs started so far
     kills     |-> 0,       \* kills so far
     iofails   |-> 0,       \* failed writes so far
     clean     |-> TRUE,    \* no kill and no failed write in any run so far
     ioFailed  |-> FALSE,   \* a write failed in this run
     ticket    |-> <<>>,    \* parallel to to_visit: the rank of each entry's append
     enq       |-> 0,       \* entries appended to to_visit in this run
     fetched   |-> <<>>,    \* the requests.get calls of this run, in order
     last      |-> 200,     \* the status of the latest of them (Raised: it raised)
     loaded    |-> {},      \* what load_visited returned to this run
     ckptKnown |-> {},      \* visited and pending at the last save_visited
     lostBatch |-> {},      \* the URLs of data when the run was killed
     outStart  |-> 0,       \* the files in output when this run started
     ckptSkipped |-> {},    \* the URLs skipped or failed in the run that wrote
                            \* visited_file, up to that save_visited
     loadedSkipped |-> {},  \* ckptSkipped when this run loaded visited_file
     appended  |-> <<>>]    \* the URLs lines 84 and 124 appended in this run

\* line 93 with count <= max_pages
LoopCond_OffByOne ==
    /\ to_visit # <<>>
    /\ (max_pages = 0 \/ count <= max_pages)
    /\ total_scraped_size < MAX_TOTAL_SIZE

\* line 93 without the test of max_pages
LoopCond_NoPageLimit ==
    /\ to_visit # <<>>
    /\ total_scraped_size < MAX_TOTAL_SIZE

\* line 93
LoopCond ==
    /\ to_visit # <<>>
    /\ (max_pages = 0 \/ count < max_pages)
    /\ total_scraped_size < MAX_TOTAL_SIZE

\* line 94 with pop(): the newest entry
PopIndex_Newest(q) == Len(q)

\* line 94: deque.popleft() takes the entry at this index
PopIndex(q) == 1

\* line 95 left out: every popped URL is fetched
AlreadyVisited_Never(url, v) == FALSE

\* line 95
AlreadyVisited(url, v) == url \in v

\* line 102 skipping the server errors only
IsSkipped_ServerErrors(status) == status >= 500

\* line 102
IsSkipped(status) == status # 200

\* line 123 without the test against visited
Wanted_IgnoresVisited(full_url, v, q) ==
    /\ StartsWith(full_url, base_url)
    /\ full_url \notin Range(q)

\* line 123 without the prefix test
Wanted_AnyDomain(full_url, v, q) ==
    /\ full_url \notin v
    /\ full_url \notin Range(q)

\* line 123
Wanted(full_url, v, q) ==
    /\ StartsWith(full_url, base_url)
    /\ full_url \notin v
    /\ full_url \notin Range(q)

\* lines 118-124
RECURSIVE QueueLinks(_, _, _)
QueueLinks(links, v, q) ==
    IF links = <<>> THEN q
    ELSE QueueLinks(Tail(links), v,
                    IF Wanted(Head(links), v, q) THEN Append(q, Head(links)) ELSE q)

\* the tickets of a queue that grew from Len(t) to n entries
GrowTickets(t, n, enq) == t \o [i \in 1..(n - Len(t)) |-> enq + i]

\* lines 79-89
StartRun ==
    /\ prog \in {"crawl", "scenario", "resume"}
    /\ pc \in Stopped
    /\ hist.run < MaxRuns
    /\ \E mp \in MaxPagesChoices :
        LET v == load_visited(visited_file)
            p == load_pending(pending_file)
            q == IF base_url \notin v /\ base_url \notin Range(p)
                 THEN Append(p, base_url) ELSE p
        IN  /\ max_pages' = mp
            /\ visited' = v
            /\ to_visit' = q
            /\ data' = <<>>
            /\ batch_index' = 1
            /\ count' = 0
            /\ total_scraped_size' = 0
            /\ pc' = "loop"
            /\ hist' = [hist EXCEPT !.run = @ + 1, !.ioFailed = FALSE,
                                    !.ticket = [i \in 1..Len(q) |-> i],
                                    !.enq = Len(q), !.fetched = <<>>,
                                    !.loaded = v, !.lostBatch = {},
                                    !.outStart = Len(output),
                                    !.loadedSkipped = hist.ckptSkipped,
                                    !.appended = SubSeq(q, Len(p) + 1, Len(q))]
    /\ UNCHANGED <<pageVars, poolVars, prog, visited_file, pending_file, output>>

\* line 93, condition false: the loop ends
LoopExit ==
    /\ pc = "loop"
    /\ ~LoopCond
    /\ pc' = "final"
    /\ UNCHANGED <<pageVars, poolVars, prog, visited_file, pending_file, output, max_pages, visited,
                   to_visit, data, batch_index, count, total_scraped_size, hist>>

\* lines 94-96: the popped URL is already visited
DropVisited ==
    /\ pc = "loop"
    /\ LoopCond
    /\ LET i == PopIndex(to_visit) IN
        /\ AlreadyVisited(to_visit[i], visited)
        /\ to_visit' = RemoveAt(to_visit, i)
        /\ hist' = [hist EXCEPT !.ticket = RemoveAt(@, i)]
    /\ UNCHANGED <<pageVars, poolVars, prog, visited_file, pending_file, output, pc, max_pages, visited,
                   data, batch_index, count, total_scraped_size>>

\* lines 94-104 and 141-143: requests.get raises (status = Raised), or returns
\* a status other than 200
FetchNoRecord ==
    /\ pc = "loop"
    /\ LoopCond
    /\ LET i == PopIndex(to_visit)
           url == to_visit[i]
       IN
        /\ ~AlreadyVisited(url, visited)
        /\ \E status \in Statuses \cup {Raised} :
            /\ status = Raised \/ IsSkipped(status)
            /\ hist' = [hist EXCEPT
                          !.ticket = RemoveAt(@, i),
                          !.last = status,
                          !.fetched = Append(@, [url |-> url, ticket |-> hist.ticket[i],
                                                  ok |-> FALSE])]
        /\ visited' = visited \cup {url}
        /\ to_visit' = RemoveAt(to_visit, i)
    /\ UNCHANGED <<pageVars, poolVars, prog, visited_file, pending_file, output, pc, max_pages,
                   data, batch_index, count, total_scraped_size>>

\* lines 94-139 for a page that is fetched with this status, makes a record
\* of this size and has these links
FetchedPage(status, record_size, links) ==
    /\ pc = "loop"
    /\ LoopCond
    /\ LET i == PopIndex(to_visit)
           url == to_visit[i]
       IN
        /\ ~AlreadyVisited(url, visited)
        /\ LET v == visited \cup {url}
                q == QueueLinks(links, v, RemoveAt(to_visit, i))
                d == Append(data, [url |-> url, size |-> record_size])
                total == total_scraped_size + record_size
            IN  /\ ~IsSkipped(status)
                /\ visited' = v
                /\ to_visit' = q
                /\ data' = d
                /\ count' = count + 1
                /\ total_scraped_size' = total
                /\ pc' = IF JsonListSize(d) >= HUNDRED_MB THEN "flush"
                         ELSE IF total >= MAX_TOTAL_SIZE THEN "final"
                         ELSE "loop"
                /\ hist' = [hist EXCEPT
                              !.ticket = GrowTickets(RemoveAt(@, i), Len(q), hist.enq),
                              !.enq = @ + Len(q) - (Len(to_visit) - 1),
                              !.appended = @ \o SubSeq(q, Len(to_visit), Len(q)),
                              !.last = status,
                              !.fetched = Append(@, [url |-> url, ticket |-> hist.ticket[i],
                                                      ok |-> TRUE])]
    /\ UNCHANGED <<pageVars, poolVars, prog, visited_file, pending_file, output, max_pages, batch_index>>

\* lines 94-139: the page is fetched and its status is not one line 102 skips
FetchOk ==
    /\ pc = "loop"
    /\ \E status \in Statuses, record_size \in RecordSizes, links \in SiteLinks :
        FetchedPage(status, record_size, links)

\* the URLs of these fetches that were skipped (line 102) or raised
NotFetchedOk(fetched) == {fetched[i].url : i \in {j \in DOMAIN fetched : ~fetched[j].ok}}

\* a write that raises: counted, and the history is no longer clean
IOFailure(h) == [h EXCEPT !.iofails = @ + 1, !.ioFailed = TRUE, !.clean = FALSE]

\* lines 59-66: the file flush_data writes
FlushFile(d, index) == [batch |-> index, urls |-> [i \in DOMAIN d |-> d[i].url]]

\* flush_data raises and the batch is dropped
FlushData_DropsBatch ==
    /\ pc = "flush"
    /\ \/ /\ output' = Append(output, FlushFile(data, batch_index))
          /\ pc' = "save_visited"
          /\ UNCHANGED <<hist, data>>
       \/ /\ hist.iofails < MaxIOFail
          /\ hist' = IOFailure(hist)
          /\ pc' = "loop"
          /\ data' = <<>>
          /\ UNCHANGED output
    /\ UNCHANGED <<pageVars, poolVars, prog, visited_file, pending_file, max_pages, visited, to_visit,
                   batch_index, count, total_scraped_size>>

\* line 129, and lines 141-143 when flush_data raises
FlushData ==
    /\ pc = "flush"
    /\ \/ /\ output' = Append(output, FlushFile(data, batch_index))
          /\ pc' = "save_visited"
          /\ UNCHANGED hist
       \/ /\ hist.iofails < MaxIOFail
          /\ hist' = IOFailure(hist)
          /\ pc' = "loop"
          /\ UNCHANGED output
    /\ UNCHANGED <<pageVars, poolVars, prog, visited_file, pending_file, max_pages, visited, to_visit,
                   data, batch_index, count, total_scraped_size>>

\* line 131, and lines 141-143 when save_visited raises
SaveVisited ==
    /\ pc = "save_visited"
    /\ \/ /\ visited_file' = save_visited(visited)
          /\ pc' = "save_pending"
          /\ hist' = [hist EXCEPT !.ckptKnown = visited \cup Range(to_visit),
                                   !.ckptSkipped = NotFetchedOk(hist.fetched)]
       \/ /\ hist.iofails < MaxIOFail
          /\ UNCHANGED visited_file
          /\ hist' = IOFailure(hist)
          /\ pc' = "loop"
    /\ UNCHANGED <<pageVars, poolVars, prog, pending_file, output, max_pages, visited, to_visit,
                   data, batch_index, count, total_scraped_size>>

\* lines 132-139 without line 133: the flushed records stay in data
SavePending_KeepsData ==
    /\ pc = "save_pending"
    /\ \/ /\ pending_file' = save_pending(to_visit)
          /\ batch_index' = batch_index + 1
          /\ pc' = IF total_scraped_size >= MAX_TOTAL_SIZE THEN "final" ELSE "loop"
          /\ UNCHANGED <<hist, data>>
       \/ /\ hist.iofails < MaxIOFail
          /\ UNCHANGED pending_file
          /\ hist' = IOFailure(hist)
          /\ pc' = "loop"
          /\ UNCHANGED <<data, batch_index>>
    /\ UNCHANGED <<pageVars, poolVars, prog, visited_file, output, max_pages, visited, to_visit,
                   count, total_scraped_size>>

\* lines 132-139, and lines 141-143 when save_pending raises
SavePending ==
    /\ pc = "save_pending"
    /\ \/ /\ pending_file' = save_pending(to_visit)
          /\ data' = <<>>
          /\ batch_index' = batch_index + 1
          /\ pc' = IF total_scraped_size >= MAX_TOTAL_SIZE THEN "final" ELSE "loop"
          /\ UNCHANGED hist
       \/ /\ hist.iofails < MaxIOFail
          /\ UNCHANGED pending_file
          /\ hist' = IOFailure(hist)
          /\ pc' = "loop"
          /\ UNCHANGED <<data, batch_index>>
    /\ UNCHANGED <<pageVars, poolVars, prog, visited_file, output, max_pages, visited, to_visit,
                   count, total_scraped_size>>

\* lines 146-147: outside the try, so an error ends the run
FinalFlush ==
    /\ pc = "final"
    /\ \/ /\ data = <<>>
          /\ pc' = "final_save_visited"
          /\ UNCHANGED <<output, hist>>
       \/ /\ data # <<>>
          /\ output' = Append(output, FlushFile(data, batch_index))
          /\ pc' = "final_save_visited"
          /\ UNCHANGED hist
       \/ /\ data # <<>>
          /\ hist.iofails < MaxIOFail
          /\ hist' = IOFailure(hist)
          /\ pc' = "error"
          /\ UNCHANGED output
    /\ UNCHANGED <<pageVars, poolVars, prog, visited_file, pending_file, max_pages, visited, to_visit,
                   data, batch_index, count, total_scraped_size>>

\* line 150
FinalSaveVisited ==
    /\ pc = "final_save_visited"
    /\ \/ /\ visited_file' = save_visited(visited)
          /\ pc' = "final_save_pending"
          /\ hist' = [hist EXCEPT !.ckptKnown = visited \cup Range(to_visit),
                                   !.ckptSkipped = NotFetchedOk(hist.fetched)]
       \/ /\ hist.iofails < MaxIOFail
          /\ UNCHANGED visited_file
          /\ hist' = IOFailure(hist)
          /\ pc' = "error"
    /\ UNCHANGED <<pageVars, poolVars, prog, pending_file, output, max_pages, visited, to_visit,
                   data, batch_index, count, total_scraped_size>>

\* lines 151-152
FinalSavePending ==
    /\ pc = "final_save_pending"
    /\ \/ /\ pending_file' = save_pending(to_visit)
          /\ pc' = "done"
          /\ UNCHANGED hist
       \/ /\ hist.iofails < MaxIOFail
          /\ UNCHANGED pending_file
          /\ hist' = IOFailure(hist)
          /\ pc' = "error"
    /\ UNCHANGED <<pageVars, poolVars, prog, visited_file, output, max_pages, visited, to_visit,
                   data, batch_index, count, total_scraped_size>>

\* The process is killed: the memory is gone, the files stay as they are (a
\* write is atomic here: a file holds all of a save or none of it).
Kill ==
    /\ pc \in Running
    /\ hist.kills < MaxKills
    /\ pc' = "killed"
    /\ visited' = {}
    /\ to_visit' = <<>>
    /\ data' = <<>>
    /\ batch_index' = 1
    /\ count' = 0
    /\ total_scraped_size' = 0
    /\ hist' = [hist EXCEPT !.kills = @ + 1, !.clean = FALSE, !.ticket = <<>>,
                            !.lostBatch = {data[i].url : i \in DOMAIN data}]
    /\ UNCHANGED <<pageVars, poolVars, prog, visited_file, pending_file, output, max_pages>>

\* a step of the running program: the interpreter goes on to the next
\* statement, requests.get and the writes return or raise
ProgramStep ==
    \/ LoopExit
    \/ DropVisited
    \/ FetchNoRecord
    \/ FetchOk
    \/ FlushData
    \/ SaveVisited
    \/ SavePending
    \/ FinalFlush
    \/ FinalSaveVisited
    \/ FinalSavePending

CrawlNext ==
    \/ StartRun
    \/ LoopExit
    \/ DropVisited
    \/ FetchNoRecord
    \/ FetchOk
    \/ FlushData
    \/ SaveVisited
    \/ SavePending
    \/ FinalFlush
    \/ FinalSaveVisited
    \/ FinalSavePending
    \/ Kill


-----------------------------------------------------------------------------
(* MongoDBHandler.save_pages_batch: mongodb_handler.py, lines 60-87 *)

\* a category that is None or empty: line 69 adds no category field
NoCategory == ""

\* lines 68-70: PageData.to_dict plus the category, the $set of one UpdateOne
\* (category NoCategory: the $set has no category field)
PageDict(page, category) ==
    [_id |-> page.url, url |-> page.url, scraped_at |-> page.scraped_at,
     category |-> category]

\* UpdateOne with upsert = True inserting the $set whatever the collection holds
UpdateOne_InsertOnly(st, page, category) ==
    LET doc == PageDict(page, category)
    IN  [u \in DOMAIN st \cup {page.url} |-> IF u \in DOMAIN st THEN st[u] ELSE doc]

\* lines 73-77: UpdateOne({"_id": page.url}, {"$set": page_dict}, upsert=True)
\* on the collection st: the fields of the $set replace those of the document
\* with this _id, its other fields stay; without such a document, the $set is
\* inserted
UpdateOne(st, page, category) ==
    LET doc == PageDict(page, category)
        new == IF page.url \in DOMAIN st /\ category = NoCategory
               THEN [doc EXCEPT !.category = st[page.url].category]
               ELSE doc
    IN  [u \in DOMAIN st \cup {page.url} |-> IF u = page.url THEN new ELSE st[u]]

\* bulk_write of the upserts of pages[1..k], in order
RECURSIVE BulkWrite(_, _, _, _)
BulkWrite(st, pages, category, k) ==
    IF k = 0 THEN st
    ELSE UpdateOne(BulkWrite(st, pages, category, k - 1), pages[k], category)

\* upserted_count + modified_count of that bulk_write
RECURSIVE SavedCount(_, _, _, _)
SavedCount(st, pages, category, k) ==
    IF k = 0 THEN 0
    ELSE LET before == BulkWrite(st, pages, category, k - 1)
         IN  SavedCount(st, pages, category, k - 1)
             + (IF UpdateOne(before, pages[k], category) = before THEN 0 ELSE 1)

\* The outcomes of save_pages_batch(pages, category) on store st: the store
\* after the call, the value returned and the operations applied. failing:
\* bulk_write raises a PyMongoError, after any number of the operations.
SavePagesBatch(st, pages, category, failing) ==
    IF pages = <<>> THEN {[store |-> st, saved |-> 0, error |-> FALSE, applied |-> 0]}
    ELSE IF failing
    THEN {[store |-> BulkWrite(st, pages, category, k), saved |-> 0, error |-> TRUE,
           applied |-> k] : k \in 0..(Len(pages) - 1)}
    ELSE {[store |-> BulkWrite(st, pages, category, Len(pages)),
           saved |-> SavedCount(st, pages, category, Len(pages)),
           error |-> FALSE, applied |-> Len(pages)]}

-----------------------------------------------------------------------------
(* main: scraper-mongo-db/main.py, lines 33-81 *)

InitPhist ==
    [writes   |-> <<>>,     \* the calls of save_pages_batch: category, urls, error
     iofails  |-> 0,        \* the calls among them that failed
     started  |-> <<>>]     \* the tasks the workers have taken, in order

\* the keys of the defaultdict, in insertion order, and its lists
EmptyPagesByCategory == [keys |-> <<>>, pages |-> <<>>]

PagesOf(byCat, category) ==
    IF category \in Range(byCat.keys)
    THEN byCat.pages[CHOOSE i \in DOMAIN byCat.keys : byCat.keys[i] = category]
    ELSE <<>>

\* scraped_pages_by_category[category] = pages
SetPages(byCat, category, pages) ==
    IF category \in Range(byCat.keys)
    THEN [byCat EXCEPT !.pages[CHOOSE i \in DOMAIN byCat.keys : byCat.keys[i] = category]
                            = pages]
    ELSE [keys |-> Append(byCat.keys, category), pages |-> Append(byCat.pages, pages)]

\* lines 46-52: one pass of the outer loop submits the entries of a category
Schedule ==
    /\ prog = "pool"
    /\ ppc = "schedule"
    /\ cat_idx <= Len(sitemap_entries)
    /\ LET c == sitemap_entries[cat_idx] IN
        /\ total_entries' = total_entries + Len(c.entries)
        /\ tasks' = tasks \o [i \in DOMAIN c.entries |->
                                [entry |-> c.entries[i], category |-> c.category,
                                 state |-> "queued", outcome |-> "none"]]
    /\ cat_idx' = cat_idx + 1
    /\ UNCHANGED <<prog, crawlVars, pageVars>>
    /\ UNCHANGED <<sitemap_entries, ppc, scraped_pages_by_category, all_scraped_pages,
                   failed_count, store, in_flight, phist>>

\* line 54: every entry is submitted; as_completed starts
StartCollect ==
    /\ prog = "pool"
    /\ ppc = "schedule"
    /\ cat_idx > Len(sitemap_entries)
    /\ ppc' = "collect"
    /\ UNCHANGED <<prog, crawlVars, pageVars>>
    /\ UNCHANGED <<sitemap_entries, cat_idx, tasks, scraped_pages_by_category,
                   all_scraped_pages, failed_count, total_entries, store, in_flight, phist>>

\* ThreadPoolExecutor: an idle worker takes the oldest queued task
WorkerStart ==
    /\ prog = "pool"
    /\ Cardinality({t \in DOMAIN tasks : tasks[t].state = "running"}) < max_workers
    /\ \E t \in DOMAIN tasks :
        /\ tasks[t].state = "queued"
        /\ \A u \in 1..(t - 1) : tasks[u].state # "queued"
        /\ tasks' = [tasks EXCEPT ![t].state = "running"]
        /\ phist' = [phist EXCEPT !.started = Append(@, t)]
    /\ UNCHANGED <<prog, crawlVars, pageVars>>
    /\ UNCHANGED <<sitemap_entries, ppc, cat_idx, scraped_pages_by_category,
                   all_scraped_pages, failed_count, total_entries, store, in_flight>>

\* web_scraper.py, lines 156-198: scrape_page returns a PageData ("page"), or
\* None after a request error or when no main content is found
ScrapeOutcomes == {"page", "request_error", "no_content"}

WorkerFinish ==
    /\ prog = "pool"
    /\ \E t \in DOMAIN tasks :
        /\ tasks[t].state = "running"
        /\ \E o \in ScrapeOutcomes :
            tasks' = [tasks EXCEPT ![t].state = "finished", ![t].outcome = o]
    /\ UNCHANGED <<prog, crawlVars, pageVars>>
    /\ UNCHANGED <<sitemap_entries, ppc, cat_idx, scraped_pages_by_category,
                   all_scraped_pages, failed_count, total_entries, store, in_flight, phist>>

\* the value future.result() returns for task t
PageDataOf(t) == [url |-> tasks[t].entry, scraped_at |-> t]

\* a call of save_pages_batch and what it leaves behind
SinkCall(st, pages, category, r) ==
    [category |-> category, urls |-> [i \in DOMAIN pages |-> pages[i].url],
     error |-> r.error, pages |-> pages, applied |-> r.applied, saved |-> r.saved,
     changed |-> r.store # st]

\* line 64 with > for >=
BatchFull_Over(pages) == Len(pages) > batch_size

\* line 64
BatchFull(pages) == Len(pages) >= batch_size

\* save_pages_batch is called by the main thread and returns before the
\* next statement of main: this one with the call returning at once
MainThreadFree_Async == TRUE

\* lines 65 and 80: save_pages_batch is a plain call, so main does nothing
\* else until it has returned
MainThreadFree == in_flight = <<>>

\* lines 54-75: the body of the as_completed loop for one finished future, up
\* to the call of save_pages_batch when the batch is full
Collect ==
    /\ prog = "pool"
    /\ ppc = "collect"
    /\ MainThreadFree
    /\ \E t \in DOMAIN tasks :
        /\ tasks[t].state = "finished"
        /\ tasks' = [tasks EXCEPT ![t].state = "collected"]
        /\ LET category == tasks[t].category
               pages == Append(PagesOf(scraped_pages_by_category, category), PageDataOf(t))
           IN
            IF tasks[t].outcome = "page"
            THEN /\ all_scraped_pages' = Append(all_scraped_pages, PageDataOf(t))
                 /\ failed_count' = failed_count
                 /\ scraped_pages_by_category' =
                        SetPages(scraped_pages_by_category, category, pages)
                 /\ in_flight' = IF BatchFull(pages)
                                 THEN Append(in_flight, [category |-> category, pages |-> pages])
                                 ELSE in_flight
            ELSE /\ failed_count' = failed_count + 1
                 /\ UNCHANGED <<scraped_pages_by_category, all_scraped_pages, in_flight>>
    /\ UNCHANGED <<prog, crawlVars, pageVars>>
    /\ UNCHANGED <<sitemap_entries, ppc, cat_idx, total_entries, store, phist>>

\* lines 65-68 and 80: a call of save_pages_batch does its bulk_write and
\* returns; in the as_completed loop the batch is then cleared
SinkReturn ==
    /\ prog = "pool"
    /\ \E k \in DOMAIN in_flight, failing \in BOOLEAN :
        LET call == in_flight[k] IN
        /\ failing => phist.iofails < MaxIOFail
        /\ \E r \in SavePagesBatch(store, call.pages, call.category, failing) :
            /\ store' = r.store
            /\ phist' = [phist EXCEPT
                            !.writes = Append(@, SinkCall(store, call.pages, call.category, r)),
                            !.iofails = @ + (IF failing THEN 1 ELSE 0)]
        /\ scraped_pages_by_category' =
              IF ppc = "collect"
              THEN SetPages(scraped_pages_by_category, call.category, <<>>)
              ELSE scraped_pages_by_category
        /\ in_flight' = RemoveAt(in_flight, k)
    /\ UNCHANGED <<prog, crawlVars, pageVars>>
    /\ UNCHANGED <<sitemap_entries, ppc, cat_idx, tasks, all_scraped_pages, failed_count,
                   total_entries>>

\* line 77: as_completed has yielded every future
EndCollect ==
    /\ prog = "pool"
    /\ ppc = "collect"
    /\ MainThreadFree
    /\ \A t \in DOMAIN tasks : tasks[t].state = "collected"
    /\ ppc' = "final"
    /\ cat_idx' = 1
    /\ UNCHANGED <<prog, crawlVars, pageVars>>
    /\ UNCHANGED <<sitemap_entries, tasks, scraped_pages_by_category,
                   all_scraped_pages, failed_count, total_entries, store, in_flight, phist>>

\* lines 78-81: one pass of the final loop, up to the call of save_pages_batch
FinalSave ==
    /\ prog = "pool"
    /\ ppc = "final"
    /\ MainThreadFree
    /\ cat_idx <= Len(scraped_pages_by_category.keys)
    /\ LET category == scraped_pages_by_category.keys[cat_idx]
           pages == scraped_pages_by_category.pages[cat_idx]
       IN  in_flight' = IF pages # <<>>
                        THEN Append(in_flight, [category |-> category, pages |-> pages])
                        ELSE in_flight
    /\ cat_idx' = cat_idx + 1
    /\ UNCHANGED <<prog, crawlVars, pageVars>>
    /\ UNCHANGED <<sitemap_entries, ppc, tasks, scraped_pages_by_category,
                   all_scraped_pages, failed_count, total_entries, store, phist>>

\* lines 83-108: the final loop is over
Finish ==
    /\ prog = "pool"
    /\ ppc = "final"
    /\ MainThreadFree
    /\ cat_idx > Len(scraped_pages_by_category.keys)
    /\ ppc' = "done"
    /\ UNCHANGED <<prog, crawlVars, pageVars>>
    /\ UNCHANGED <<sitemap_entries, cat_idx, tasks, scraped_pages_by_category,
                   all_scraped_pages, failed_count, total_entries, store, in_flight, phist>>

PoolNext ==
    \/ Schedule
    \/ StartCollect
    \/ WorkerStart
    \/ WorkerFinish
    \/ Collect
    \/ SinkReturn
    \/ EndCollect
    \/ FinalSave
    \/ Finish

-----------------------------------------------------------------------------
(* MongoDBHandler.save_pages_batch called on its own: any batches, with and
   without a category *)

SinkUrls == {"/a/1", "/a/2"}

\* the PageData of the calls: a URL scraped once, another scraped twice
SinkPages == {pg \in [url : SinkUrls, scraped_at : {1, 2}] :
                 pg.url = "/a/2" => pg.scraped_at = 1}

\* the batches of the calls: up to two distinct PageData
SinkBatches ==
    {<<>>} \cup {<<x>> : x \in SinkPages}
           \cup {w \in {<<x, y>> : x \in SinkPages, y \in SinkPages} : w[1] # w[2]}

SinkCategories == {"a", "b", NoCategory}

\* save_pages_batch(pages, category) is called and returns
SavePagesBatchCall ==
    /\ prog = "sink"
    /\ Len(phist.writes) < MaxCalls
    /\ \E pages \in SinkBatches, category \in SinkCategories, failing \in BOOLEAN :
        /\ failing => phist.iofails < MaxIOFail
        /\ \E r \in SavePagesBatch(store, pages, category, failing) :
            /\ store' = r.store
            /\ phist' = [phist EXCEPT
                            !.writes = Append(@, SinkCall(store, pages, category, r)),
                            !.iofails = @ + (IF r.error THEN 1 ELSE 0)]
    /\ UNCHANGED <<prog, crawlVars, pageVars>>
    /\ UNCHANGED <<sitemap_entries, ppc, cat_idx, tasks, scraped_pages_by_category,
                   all_scraped_pages, failed_count, total_entries, in_flight>>

SinkNext == SavePagesBatchCall

-----------------------------------------------------------------------------
(* UniversityContentFilter.extract_main_content (content_filter.py, lines
   101-147) and WebScraper.scrape_page (web_scraper.py, lines 156-198) on one
   page. An element is known by the selector or block list it is in and its
   position there, and by len(element.get_text(strip=True)). *)

\* ContentFilterConfig.min_text_length
min_text_length == 50

\* two of the main_content_selectors, in their priority order
main_content_selectors == <<"#content-main article", ".content">>

\* the text lengths of the elements of a page
TextLengths == {min_text_length, min_text_length + 1, min_text_length + 30}

SeqsUpTo(S, n) == UNION {[1..k -> S] : k \in 0..n}

\* The pages: for each selector the text lengths of the elements that
\* soup.select(selector) returns, in document order, and those of the div,
\* section, article and main elements in the order lines 137-138 visit them
Soups ==
    [matches : [DOMAIN main_content_selectors -> SeqsUpTo(TextLengths, MaxElements)],
     blocks  : SeqsUpTo(TextLengths, MaxElements)]

\* no page: the program is not scrape_page
NoSoup == [matches |-> <<>>, blocks |-> <<>>]

\* Python's None, for a value that is otherwise a record
None == [none |-> TRUE]

\* max(elements, key=len of text): the first of the elements of greatest length
ArgMax(lens) ==
    CHOOSE i \in DOMAIN lens :
        /\ \A j \in DOMAIN lens : lens[j] <= lens[i]
        /\ \A j \in 1..(i - 1) : lens[j] < lens[i]

\* an element of the page
Element(via, pos, len) == [none |-> FALSE, via |-> via, pos |-> pos, len |-> len]

\* lines 107-114 taking the longest match of all the selectors
RECURSIVE SelectMainContent_Longest(_, _)
SelectMainContent_Longest(soup, i) ==
    IF i > Len(main_content_selectors) THEN None
    ELSE LET elements == soup.matches[i]
             rest == SelectMainContent_Longest(soup, i + 1)
             best == ArgMax(elements)
         IN  IF elements # <<>> /\ elements[best] > min_text_length
                /\ (rest.none \/ rest.len <= elements[best])
             THEN Element(i, best, elements[best])
             ELSE rest

\* lines 107-114: the loop over the selectors, from selector i on
RECURSIVE SelectMainContent(_, _)
SelectMainContent(soup, i) ==
    IF i > Len(main_content_selectors) THEN None
    ELSE LET elements == soup.matches[i]
             best_element == ArgMax(elements)
         IN  IF elements # <<>> /\ elements[best_element] > min_text_length
             THEN Element(i, best_element, elements[best_element])
             ELSE SelectMainContent(soup, i + 1)

\* where an element comes from when no selector gave it
Fallback == 0

\* lines 132-147
FindLargestContentBlock(soup) ==
    LET candidates == {k \in DOMAIN soup.blocks : soup.blocks[k] > min_text_length}
    IN  IF candidates # {}
        THEN LET k == CHOOSE c \in candidates :
                        /\ \A d \in candidates : soup.blocks[d] <= soup.blocks[c]
                        /\ \A d \in candidates : d < c => soup.blocks[d] < soup.blocks[c]
             IN  Element(Fallback, k, soup.blocks[k])
        ELSE None

\* lines 105-121: the element extract_main_content works on, or None
ChooseMainContent(soup) ==
    LET main_content == SelectMainContent(soup, 1)
    IN  IF main_content.none THEN FindLargestContentBlock(soup) ELSE main_content

\* what the filters of lines 127-128 find in the chosen element: nothing to
\* remove, or all its text in elements they remove (nav, aside, ..., a class
\* or id with one of the remove_patterns, elements of fewer than 10
\* characters)
Unwanted == {"nothing", "all"}

\* lines 123-130: the filtered copy of the chosen element, with the length of
\* the text left in it
extract_main_content(soup, unwanted) ==
    LET main_content == ChooseMainContent(soup)
    IN  IF main_content.none THEN None
        ELSE [none |-> FALSE, element |-> main_content,
              text_len |-> IF unwanted = "all" THEN 0 ELSE main_content.len]

\* web_scraper.py, lines 161-198. fetch: the request succeeds ("ok") or
\* raises a RequestException
scrape_page(soup, fetch, unwanted) ==
    IF fetch # "ok" THEN None
    ELSE LET main_content == extract_main_content(soup, unwanted)
         IN  IF main_content.none THEN None
             ELSE [none |-> FALSE, text_len |-> main_content.text_len,
                   element |-> main_content.element]

\* the function has not been called
NotCalled == [called |-> FALSE]

\* scrape_page is called on the page and returns
ScrapePage ==
    /\ prog = "page"
    /\ ~scrape_result.called
    /\ \E fetch \in {"ok", "request_error"}, unwanted \in Unwanted :
        scrape_result' = [called |-> TRUE, fetch |-> fetch,
                          page_data |-> scrape_page(full_soup, fetch, unwanted)]
    /\ UNCHANGED <<prog, crawlVars, poolVars, full_soup, content, images,
                   validatorVars, textVars>>

PageNext == ScrapePage

-----------------------------------------------------------------------------
(* WebScraper._extract_images_from_content: web_scraper.py, lines 200-231.
   Attribute values are strings, modelled as sequences of characters. *)

Https == <<"h", "t", "t", "p", "s", ":", "/", "/">>
Http  == <<"h", "t", "t", "p", ":", "/", "/">>

\* WebScraper.base_url: a scheme and a host, no trailing slash
self_base_url == Https \o <<"b">>

\* img.get(name): the attribute is absent (None) or has a string value
NoAttr == [present |-> FALSE, value |-> <<>>]
Attr(v) == [present |-> TRUE, value |-> v]

\* the src attributes of the img tags
Srcs ==
    {NoAttr, Attr(<<>>),
     Attr(<<"/", "i">>),                    \* /i
     Attr(<<".", "/", "i">>),               \* ./i
     Attr(<<"i">>),                         \* i
     Attr(Http \o <<"o", "/", "i">>),       \* http://o/i
     Attr(Https \o <<"o", "/", "i">>),      \* https://o/i
     Attr(<<"/", "/", "o", "/", "i">>)}     \* //o/i

\* the width and height attributes of the img tags
Dims ==
    {NoAttr, Attr(<<>>), Attr(<<"4", "9">>), Attr(<<"5", "0">>),
     Attr(<<"a", "u", "t", "o">>)}

\* the img tags: every src without dimensions, every pair of dimensions
\* with one src
ImgTags ==
    [src : Srcs, width : {NoAttr}, height : {NoAttr}]
      \cup [src : {Attr(<<"/", "i">>)}, width : Dims, height : Dims]

\* the truth value of img.get(name): None and "" are false
Truthy(a) == a.present /\ a.value # <<>>

Digits == {"0", "1", "2", "3", "4", "5", "6", "7", "8", "9"}

DigitValue(c) == CHOOSE n \in 0..9 : <<"0", "1", "2", "3", "4", "5", "6", "7", "8", "9">>[n + 1] = c

\* int(s) raises ValueError
IntRaises(s) == s = <<>> \/ \E i \in DOMAIN s : s[i] \notin Digits

\* int(s) for a string of digits
RECURSIVE int(_)
int(s) == IF s = <<>> THEN 0 ELSE 10 * int(SubSeq(s, 1, Len(s) - 1)) + DigitValue(s[Len(s)])

\* ContentFilterConfig.min_image_width and min_image_height; line 220 has
\* the number itself
min_image_size == 50

\* lines 216-223 with line 218 as `if width or height`: a dimension that is
\* absent is not looked at
SkipsImage_EitherDimension(width, height) ==
    \/ Truthy(width) /\ ~IntRaises(width.value) /\ int(width.value) < min_image_size
    \/ Truthy(height) /\ ~IntRaises(height.value) /\ int(height.value) < min_image_size

\* lines 216-223: the image is skipped. The or of line 220 evaluates
\* int(height) only when int(width) is not below the minimum
SkipsImage(width, height) ==
    IF Truthy(width) /\ Truthy(height)
    THEN IF IntRaises(width.value) THEN FALSE
         ELSE IF int(width.value) < min_image_size THEN TRUE
         ELSE IF IntRaises(height.value) THEN FALSE
         ELSE int(height.value) < min_image_size
    ELSE FALSE

\* lines 208-213
ResolveSrc(src) ==
    IF StartsWith(src, <<"/">>) THEN self_base_url \o src
    ELSE IF StartsWith(src, <<".", "/">>) THEN self_base_url \o Tail(src)
    ELSE IF ~(StartsWith(src, Http) \/ StartsWith(src, Https))
         THEN self_base_url \o <<"/">> \o src
    ELSE src

\* lines 204-231 for the img tags imgs[1..k]. tag: the position of the img
\* tag an ImageData was made from (history, not a field of ImageData)
RECURSIVE ExtractImages(_, _)
ExtractImages(imgs, k) ==
    IF k = 0 THEN <<>>
    ELSE LET img == imgs[k]
             before == ExtractImages(imgs, k - 1)
         IN  IF Truthy(img.src) /\ ~SkipsImage(img.width, img.height)
             THEN Append(before, [src |-> ResolveSrc(img.src.value), tag |-> k])
             ELSE before

\* _extract_images_from_content is called on the content and returns
ExtractImagesCall ==
    /\ prog = "images"
    /\ ~images.called
    /\ images' = [called |-> TRUE, value |-> ExtractImages(content, Len(content))]
    /\ UNCHANGED <<prog, crawlVars, poolVars, full_soup, scrape_result, content,
                   validatorVars, textVars>>

ImageNext == ExtractImagesCall

-----------------------------------------------------------------------------
(* ContentQualityValidator.validate_page_content (content_validator.py, lines
   26-67) on one page. A text is the sequence of the parts that its '.'
   separate, as str.split('.') returns them; a part is known by how many
   characters of each kind it has: the blanks at its ends (pad), the capital
   I with a dot above (dotted_I, U+0130: the one character that str.lower
   turns into two) and the other characters (letters). The text also carries
   how many of the nav_keywords and of the content_indicators occur in it,
   whatever their case. *)

\* Bound of the model: the parts of a text
MaxSentences == 2

LetterCounts == {0, 20, 21, 77, 78, 98}

Sentences == [pad : {0, 1}, letters : LetterCounts, dotted_I : {0, 1}]

NavCounts == {0, 2, 3}

IndicatorCounts == {0, 1, 2}

RECURSIVE SumLetters(_)
SumLetters(parts) ==
    IF parts = <<>> THEN 0 ELSE Head(parts).letters + SumLetters(Tail(parts))

\* the texts of the model: every keyword has five letters or more
Texts ==
    { t \in [parts : SeqsUpTo(Sentences, MaxSentences) \ {<<>>},
             nav : NavCounts, indicators : IndicatorCounts] :
        5 * (t.nav + t.indicators) <= SumLetters(t.parts) }

\* len(s) of one part
PartLen(p) == p.pad + p.letters + p.dotted_I

RECURSIVE SumPartLen(_)
SumPartLen(parts) ==
    IF parts = <<>> THEN 0 ELSE PartLen(Head(parts)) + SumPartLen(Tail(parts))

\* len(text): the parts and the '.' between them
TextLen(t) == SumPartLen(t.parts) + Len(t.parts) - 1

\* str.lower: U+0130 becomes 'i' followed by U+0307, every other character
\* becomes one character
lower(t) ==
    [t EXCEPT !.parts =
        [i \in DOMAIN t.parts |->
            [pad |-> t.parts[i].pad,
             letters |-> t.parts[i].letters + 2 * t.parts[i].dotted_I,
             dotted_I |-> 0]]]

\* len(s.strip()) of one part
StrippedLen(p) == p.letters + p.dotted_I

TooShort == "Content too short (< 100 characters)"
NavIssue == "Contains navigation keywords"
LowQuality == "Low content quality detected"

\* the test of line 41, on the length of the lowered text
IsTooShort(text) == TextLen(text) < 100

\* the overall test of lines 62-63; content_density < 0.5 is
\* meaningful_sentences / total_sentences < 1/2
IsLowQuality(quality_score, content_density) ==
    /\ quality_score < 2
    /\ 2 * content_density.meaningful < content_density.total

validate_page_content(t) ==
    LET text == lower(t)
        nav_artifact_count == text.nav
        content_score == text.indicators
        meaningful_sentences ==
            Cardinality({i \in DOMAIN text.parts : StrippedLen(text.parts[i]) > 20})
        total_sentences == Len(text.parts)
        content_density ==
            [meaningful |-> meaningful_sentences, total |-> total_sentences]
        low == IsLowQuality(content_score, content_density)
    IN  [is_valid |-> ~IsTooShort(text) /\ ~low,
         issues |-> (IF IsTooShort(text) THEN <<TooShort>> ELSE <<>>)
                    \o (IF nav_artifact_count > 2 THEN <<NavIssue>> ELSE <<>>)
                    \o (IF low THEN <<LowQuality>> ELSE <<>>),
         quality_score |-> content_score,
         has_navigation_artifacts |-> nav_artifact_count > 2,
         content_density |-> content_density]

\* validate_page_content is called on the page and returns
ValidatePageContent ==
    /\ prog = "validator"
    /\ ~validation_result.called
    /\ validation_result' = [called |-> TRUE, value |-> validate_page_content(page_text)]
    /\ UNCHANGED <<prog, crawlVars, poolVars, full_soup, scrape_result, content,
                   images, page_text, textVars>>

ValidatorNext == ValidatePageContent

-----------------------------------------------------------------------------
(* The clean-up of WebScraper._get_clean_text (web_scraper.py, lines 243-249)
   on one string: the three re.sub passes and the final strip. A string is
   the sequence of its characters. *)

\* the characters of the model: a letter, the blanks [ \t], the line break and
\* a carriage return (matched by \s, not by [ \t])
Chars == {"a", " ", "\t", "\n", "\r"}

Blanks == {" ", "\t"}

\* the length of the longest prefix of s made of the characters of set
RECURSIVE Span(_, _)
Span(s, set) ==
    IF s # <<>> /\ Head(s) \in set THEN 1 + Span(Tail(s), set) ELSE 0

\* the lengths of the prefixes of s that \n\n\n matches, and those that
\* \n\s*\n\s*\n matches
BreakMatches_Exact(s) ==
    { e \in {3} : Len(s) >= 3 /\ \A k \in 1..3 : s[k] = "\n" }
BreakMatches(s) ==
    { e \in 3..Len(s) :
        /\ s[1] = "\n"
        /\ s[e] = "\n"
        /\ \A k \in 1..e : IsSpace(s[k])
        /\ \E m \in 2..(e - 1) : s[m] = "\n" }

\* re.sub(r'\n\s*\n\s*\n', '\n\n', text): leftmost matches, each the longest
\* at its place as both \s* are greedy
RECURSIVE CollapseBreaks(_)
CollapseBreaks(s) ==
    IF s = <<>> THEN <<>>
    ELSE IF BreakMatches(s) # {}
         THEN LET e == CHOOSE x \in BreakMatches(s) : \A y \in BreakMatches(s) : y <= x
              IN  <<"\n", "\n">> \o CollapseBreaks(SubSeq(s, e + 1, Len(s)))
         ELSE <<Head(s)>> \o CollapseBreaks(Tail(s))

\* re.sub(r'[ \t]+', ' ', text)
RECURSIVE CollapseBlanks(_)
CollapseBlanks(s) ==
    IF s = <<>> THEN <<>>
    ELSE IF Head(s) \in Blanks
         THEN <<" ">> \o CollapseBlanks(SubSeq(s, Span(s, Blanks) + 1, Len(s)))
         ELSE <<Head(s)>> \o CollapseBlanks(Tail(s))

\* re.sub(r'\n[ \t]+', '\n', text)
RECURSIVE DropBlanksAfterBreak(_)
DropBlanksAfterBreak(s) ==
    IF s = <<>> THEN <<>>
    ELSE IF Head(s) = "\n" /\ Span(Tail(s), Blanks) > 0
         THEN <<"\n">> \o DropBlanksAfterBreak(
                            SubSeq(s, Span(Tail(s), Blanks) + 2, Len(s)))
         ELSE <<Head(s)>> \o DropBlanksAfterBreak(Tail(s))

\* lines 245-249
CleanUp(s) == strip(DropBlanksAfterBreak(CollapseBlanks(CollapseBreaks(s))))

\* the clean-up runs on the text and returns
GetCleanText ==
    /\ prog = "text"
    /\ ~clean_text.called
    /\ clean_text' = [called |-> TRUE, value |-> CleanUp(raw_text)]
    /\ UNCHANGED <<prog, crawlVars, poolVars, full_soup, scrape_result, content,
                   images, validatorVars, raw_text>>

TextNext == GetCleanText

-----------------------------------------------------------------------------
(* One page seen by both programs: scrape_website (main.py, lines 79-124)
   is started on an empty disk and fetches the page at base_url, and
   scrape_page (web_scraper.py, lines 156-231) scrapes the same page. The
   page has a main element of 300 characters of text, two links to two other
   pages under base_url and one img tag, with a width of 30 and no height. *)

\* the text lengths of the elements of the page
ScenarioLengths == {min_text_length, 300}

\* the pages: the main element is one of the blocks of line 137, the
\* selectors match it, another element or nothing
ScenarioSoups ==
    { soup \in [matches : [DOMAIN main_content_selectors -> SeqsUpTo(ScenarioLengths, 1)],
                blocks  : SeqsUpTo(ScenarioLengths, MaxElements)] :
        300 \in Range(soup.blocks) }

\* the img tag of the page, with every src
ScenarioImgs == [src : Srcs, width : {Attr(<<"3", "0">>)}, height : {NoAttr}]

\* the img tags of the filtered main content: the one img tag of the page,
\* or none when the filters of lines 127-128 removed an element around it
ScenarioContents == {<<>>} \cup {<<img>> : img \in ScenarioImgs}

\* the <a href> lists of the page
ScenarioLinks ==
    { links \in LinkLists :
        /\ Len(links) = 2
        /\ links[1] # links[2]
        /\ \A i \in 1..2 : StartsWith(links[i], base_url) /\ links[i] # base_url }

\* lines 94-124 of main.py on the page at base_url
ScenarioFetch ==
    /\ prog = "scenario"
    /\ hist.fetched = <<>>
    /\ \E record_size \in RecordSizes, links \in ScenarioLinks :
        FetchedPage(200, record_size, links)

\* scrape_page is called on the page and returns: lines 161-198, with the
\* call of _extract_images_from_content of line 174
ScenarioScrape ==
    /\ prog = "scenario"
    /\ ~scrape_result.called
    /\ \E fetch \in {"ok", "request_error"}, unwanted \in Unwanted :
        LET page == scrape_page(full_soup, fetch, unwanted)
        IN  /\ scrape_result' = [called |-> TRUE, fetch |-> fetch, page_data |-> page]
            /\ images' = IF page.none THEN NotCalled
                         ELSE [called |-> TRUE,
                               value |-> ExtractImages(content, Len(content))]
    /\ UNCHANGED <<prog, crawlVars, poolVars, full_soup, content, validatorVars,
                   textVars>>

ScenarioNext == StartRun \/ ScenarioFetch \/ ScenarioScrape

-----------------------------------------------------------------------------
(* Properties *)

\* the URLs of a sequence of records
Urls(d) == {d[i].url : i \in DOMAIN d}

\* the URLs whose record is in a flush file on disk
FlushedUrls == UNION {Range(output[k].urls) : k \in DOMAIN output}

\* the pages this run has scraped with success
SucceededUrls == {hist.fetched[i].url : i \in {j \in DOMAIN hist.fetched : hist.fetched[j].ok}}

\* how often url occurs in the sequence q
Occurrences(q, url) == Cardinality({i \in DOMAIN q : q[i] = url})

\* the entries of the first n categories of the sitemap, in order
RECURSIVE EntriesUpTo(_)
EntriesUpTo(n) ==
    IF n = 0 THEN <<>> ELSE EntriesUpTo(n - 1) \o sitemap_entries[n].entries

(* C1. Frontier invariant of scrape_website: starting from absent checkpoint
   files and over consecutive runs, each loading what the former saved (no
   kill, no failed write), in every state after the load-and-seed step no
   URL is both in visited and in to_visit, and no URL is twice in to_visit. *)
C1_FrontierInvariant ==
    (hist.clean /\ pc \in Running) =>
        /\ visited \cap Range(to_visit) = {}
        /\ NoDuplicates(to_visit)

(* C2. Crash consistency of the checkpoint: whenever the process may be
   killed, the visited file and the pending file are a pair of one and the
   same checkpoint: every URL known at the checkpoint that is not in the
   persisted visited set is in the persisted pending list, and no URL is in
   both files. *)
C2_CheckpointConsistent ==
    LET persisted_visited == Range(visited_file.lines)
        persisted_pending == Range(pending_file.lines)
    IN  /\ persisted_visited \cap persisted_pending = {}
        /\ \A u \in hist.ckptKnown : u \in persisted_visited \/ u \in persisted_pending

\* the batch a kill (or the end of the process) loses: data as it was
InFlightBatch == IF pc = "killed" THEN hist.lostBatch ELSE Urls(data)

(* C3. A crash loses at most one in-flight batch: at every point where the
   run may be killed, and once it is killed, every page that succeeded in
   the run has its record in a written flush file, or is still fetched by a
   resumed run (in the persisted pending list and not in the persisted
   visited set), or is in the one unflushed batch. *)
C3_CrashLosesOneBatch ==
    \A u \in SucceededUrls :
        \/ u \in FlushedUrls
        \/ /\ u \in Range(load_pending(pending_file))
           /\ u \notin load_visited(visited_file)
        \/ u \in InFlightBatch

\* a killed run, one of whose pages is flushed and another lost with the batch
C3_Witness ==
    /\ pc = "killed"
    /\ \E u \in SucceededUrls : u \in FlushedUrls /\ u \notin hist.lostBatch
    /\ \E u \in SucceededUrls : u \in hist.lostBatch /\ u \notin FlushedUrls

(* C4. No URL is fetched twice: in one run of scrape_website no URL is
   passed to requests.get more than once and no URL of the loaded visited
   set is fetched; in the thread-pool orchestrator the tasks are the sitemap
   entries, one task per entry, and a worker takes each task at most once. *)
C4_NoUrlFetchedTwice ==
    /\ \A i, j \in DOMAIN hist.fetched :
          i # j => hist.fetched[i].url # hist.fetched[j].url
    /\ \A i \in DOMAIN hist.fetched : hist.fetched[i].url \notin hist.loaded
    /\ [t \in DOMAIN tasks |-> tasks[t].entry]
          = EntriesUpTo(IF ppc = "schedule" THEN cat_idx - 1 ELSE Len(sitemap_entries))
    /\ NoDuplicates(phist.started)

\* a resumed run that has loaded visited URLs, dropped a popped URL and fetched
C4_Witness ==
    /\ hist.run = 2
    /\ hist.loaded # {}
    /\ hist.fetched # <<>>
    /\ hist.enq > Len(hist.fetched) + Len(to_visit)

(* C5. Batch flush protocol: once the batch has reached the threshold, it
   is written and the frontier checkpointed before any further record is
   appended: no record is ever appended to a batch whose serialized size has
   already reached HUNDRED_MB. *)
C5_FlushBeforeNextRecord ==
    [][Len(data') > Len(data) => JsonListSize(data) < HUNDRED_MB]_vars

\* a run-level cause of termination holds
StopCause ==
    \/ to_visit = <<>>
    \/ max_pages > 0 /\ count >= max_pages
    \/ total_scraped_size >= MAX_TOTAL_SIZE

(* C6. Run termination of scrape_website: with a cause of termination (no
   pending URL, max_pages pages scraped, MAX_TOTAL_SIZE bytes scraped) at
   the loop test, the run fetches nothing more and leaves the loop; the
   loop is left only with such a cause; and when the function returns, the
   batch still in memory is the last flush file and the two files hold
   visited and to_visit as they are. *)
C6_RunTermination ==
    [][ /\ (pc = "loop" /\ StopCause) =>
              /\ pc' \in {"final", "killed"}
              /\ hist'.fetched = hist.fetched
        /\ (pc \in {"loop", "save_pending"} /\ pc' = "final") => StopCause'
        /\ (pc # "done" /\ pc' = "done") =>
              /\ data' # <<>> =>
                    /\ output' # <<>>
                    /\ output'[Len(output')].urls = [i \in DOMAIN data' |-> data'[i].url]
              /\ Range(visited_file'.lines) = visited'
              /\ pending_file'.lines = to_visit'
      ]_vars

\* a run that returned for the byte ceiling alone, with URLs still pending
\* and a partial batch
C6_Witness ==
    /\ pc = "done"
    /\ total_scraped_size >= MAX_TOTAL_SIZE
    /\ to_visit # <<>>
    /\ max_pages = 0
    /\ data # <<>>
    /\ JsonListSize(data) < HUNDRED_MB

(* C7. Sink and frontier I/O errors are fatal: once a write of a batch or
   of a checkpoint file has failed, the run is over with the error (it
   processes no further URL), in scrape_website and in the thread-pool
   orchestrator alike. *)
C7_IOErrorsFatal ==
    /\ hist.ioFailed => pc \in {"error", "killed"}
    /\ (\E k \in DOMAIN phist.writes : phist.writes[k].error) => ppc = "error"

\* the step is a requests.get of the crawler
IsFetch == Len(hist'.fetched) = Len(hist.fetched) + 1

\* the URL that step fetched
FetchedUrl == hist'.fetched[Len(hist'.fetched)].url

\* that step took one occurrence of the fetched URL out of to_visit and
\* appended nothing
OnlyPopped == \E i \in DOMAIN to_visit :
                 to_visit[i] = FetchedUrl /\ to_visit' = RemoveAt(to_visit, i)

(* C8. Per-URL failures never abort the run and are never re-queued: a
   fetch that raises appends no record, leaves the URL visited and out of
   the queue, and the loop goes on; no visited URL is appended to to_visit
   again during the run. In the pool, a task that returned no page is
   counted in failed_count, adds nothing to a batch or to the store, the
   collecting loop goes on, and no task is queued again. *)
C8_FailuresNeitherAbortNorRequeue ==
    [][ /\ (IsFetch /\ hist'.last = Raised) =>
              /\ data' = data
              /\ count' = count
              /\ output' = output
              /\ pc' = "loop"
              /\ FetchedUrl \in visited'
              /\ OnlyPopped
        /\ (pc \in Running /\ pc' \in Running) =>
              \A u \in visited : Occurrences(to_visit', u) <= Occurrences(to_visit, u)
        /\ \A t \in DOMAIN tasks :
              /\ tasks[t].state # "queued" => tasks'[t].state # "queued"
              /\ (tasks[t].state = "finished" /\ tasks'[t].state = "collected"
                    /\ tasks[t].outcome # "page") =>
                    /\ failed_count' = failed_count + 1
                    /\ scraped_pages_by_category' = scraped_pages_by_category
                    /\ all_scraped_pages' = all_scraped_pages
                    /\ store' = store
                    /\ ppc' = "collect"
      ]_vars

\* a fetch has just raised, after a success, and the loop goes on with a
\* non-empty queue
C8_Witness ==
    /\ pc = "loop"
    /\ hist.fetched # <<>>
    /\ hist.last = Raised
    /\ data # <<>>
    /\ to_visit # <<>>

(* C9. Skipped transition: a fetch that returns a status outside 200..299
   appends no record, follows no link of the page, leaves the page counter
   and the byte total unchanged, and does not put the URL back into
   to_visit. *)
C9_NonSuccessIsSkipped ==
    [][ (IsFetch /\ hist'.last # Raised /\ hist'.last \notin 200..299) =>
              /\ data' = data
              /\ count' = count
              /\ total_scraped_size' = total_scraped_size
              /\ output' = output
              /\ FetchedUrl \in visited'
              /\ OnlyPopped
      ]_vars

\* a fetch has just returned 404, after a success
C9_Witness ==
    /\ hist.fetched # <<>>
    /\ hist.last = 404
    /\ data # <<>>

(* C10. FIFO order: scrape_website fetches the URLs in the order of their
   append to to_visit (the loaded pending entries in file order, then the
   seed, then the discovered links): a URL appended earlier is never fetched
   after one appended later, and every URL still pending was appended after
   every URL fetched so far. *)
C10_FifoOrder ==
    /\ \A i, j \in DOMAIN hist.fetched :
          i < j => hist.fetched[i].ticket < hist.fetched[j].ticket
    /\ \A i \in DOMAIN hist.fetched, k \in DOMAIN hist.ticket :
          hist.fetched[i].ticket < hist.ticket[k]

\* a resumed run that fetched a loaded pending URL, then a link discovered
\* later, with another still pending
C10_Witness ==
    /\ hist.run = 2
    /\ Len(hist.fetched) >= 2
    /\ to_visit # <<>>

(* C11. Frontier round trip: for the visited set and the pending sequence
   the crawler holds, load_visited of what save_visited writes is the same
   set, and load_pending of what save_pending writes is the same sequence. *)
C11_FrontierRoundTrip ==
    pc \in Running =>
        /\ load_visited(save_visited(visited)) = visited
        /\ load_pending(save_pending(to_visit)) = to_visit

\* the first index of u in the sequence s
FirstIndex(s, u) == CHOOSE i \in DOMAIN s : s[i] = u /\ \A j \in 1..(i - 1) : s[j] # u

\* q is rest followed by the links of the page that start with base_url and
\* are neither in v nor in rest, each once, in the order of the page
AppendsInDomainNew(q, links, v, rest) ==
    /\ Len(q) >= Len(rest)
    /\ SubSeq(q, 1, Len(rest)) = rest
    /\ LET new == SubSeq(q, Len(rest) + 1, Len(q)) IN
        /\ NoDuplicates(new)
        /\ Range(new) = {u \in Range(links) :
                            StartsWith(u, base_url) /\ u \notin v /\ u \notin Range(rest)}
        /\ \A a, b \in DOMAIN new :
              a < b => FirstIndex(links, new[a]) < FirstIndex(links, new[b])

\* the step is a fetch that appended a record
IsSuccess == IsFetch /\ hist'.fetched[Len(hist'.fetched)].ok

(* C12. Only in-domain links enter the frontier: for every list of links a
   page can have, the links queued are those that start with base_url and
   are neither visited nor pending, each once and in page order, after the
   pending entries; a page that succeeds changes to_visit in this way for
   its links; and every URL in to_visit during a run starts with base_url. *)
C12_OnlyInDomainLinks ==
    /\ [](  (pc = "loop" /\ to_visit # <<>>) =>
              \A links \in LinkLists :
                  LET url == to_visit[PopIndex(to_visit)]
                      v == visited \cup {url}
                      rest == RemoveAt(to_visit, PopIndex(to_visit))
                  IN  AppendsInDomainNew(QueueLinks(links, v, rest), links, v, rest))
    /\ [][ /\ IsSuccess =>
                \E i \in DOMAIN to_visit, links \in LinkLists :
                    /\ to_visit[i] = FetchedUrl
                    /\ AppendsInDomainNew(to_visit', links, visited', RemoveAt(to_visit, i))
          /\ pc' \in Running => \A u \in Range(to_visit') : StartsWith(u, base_url)
        ]_vars

\* a first run whose seed page succeeded and had two new in-domain links
C12_Witness ==
    /\ hist.run = 1
    /\ pc \in Running
    /\ Len(hist.fetched) = 1
    /\ hist.fetched[1].ok
    /\ Len(to_visit) = 2
    /\ \A u \in Range(to_visit) : StartsWith(u, base_url) /\ u # base_url

\* the categories of the sitemap
Categories == {sitemap_entries[k].category : k \in DOMAIN sitemap_entries}

\* the calls of save_pages_batch for category c, in order
WritesOf(c) == SelectSeq(phist.writes, LAMBDA w : w.category = c)

\* the URLs of the pages of category c that succeeded, in the order collected
SucceededOf(c) ==
    LET ps == SelectSeq(all_scraped_pages, LAMBDA pg : tasks[pg.scraped_at].category = c)
    IN  [i \in DOMAIN ps |-> ps[i].url]

RECURSIVE ConcatUrls(_)
ConcatUrls(ws) == IF ws = <<>> THEN <<>> ELSE Head(ws).urls \o ConcatUrls(Tail(ws))

(* C13. Count-threshold batching: while the futures are collected and no
   call of the sink is executing, every batch handed to the sink has exactly
   batch_size records and fewer than batch_size records wait per category;
   when main is through, a category
   with N succeeded pages has had ceil(N / batch_size) calls of
   save_pages_batch, all of batch_size records but the last, which has the
   remainder, and the batches in order are the N pages in the order they
   were collected. *)
C13_CountThresholdBatching ==
    \A c \in Categories :
        LET ws == WritesOf(c)
            N == Len(SucceededOf(c))
        IN  /\ (ppc = "collect" /\ in_flight = <<>>) =>
                  /\ \A k \in DOMAIN ws : Len(ws[k].urls) = batch_size
                  /\ Len(PagesOf(scraped_pages_by_category, c)) < batch_size
                  /\ ConcatUrls(ws) \o [i \in DOMAIN PagesOf(scraped_pages_by_category, c) |->
                                           PagesOf(scraped_pages_by_category, c)[i].url]
                        = SucceededOf(c)
            /\ ppc = "done" =>
                  /\ Len(ws) = (N + batch_size - 1) \div batch_size
                  /\ \A k \in 1..(Len(ws) - 1) : Len(ws[k].urls) = batch_size
                  /\ ws # <<>> => Len(ws[Len(ws)].urls) = N - batch_size * (Len(ws) - 1)
                  /\ ConcatUrls(ws) = SucceededOf(c)

\* main is through and a category with three succeeded pages had two
\* batches, of batch_size records and of one
C13_Witness ==
    /\ ppc = "done"
    /\ \E c \in Categories :
          /\ Len(SucceededOf(c)) = batch_size + 1
          /\ Len(WritesOf(c)) = 2
          /\ Len(WritesOf(c)[1].urls) = batch_size
          /\ Len(WritesOf(c)[2].urls) = 1

\* the categories with a write of their batch executing
WritingCategories == {in_flight[k].category : k \in DOMAIN in_flight}

(* C14. Only one flush is in flight at a time: under every interleaving of
   the workers with the main thread, at most one call of save_pages_batch is
   executing at any moment, and while the write of a batch is executing no
   record is appended to the batch of that category: it stays as it was
   handed to the sink until the call returns. *)
C14_OneFlushInFlight ==
    [][ /\ Len(in_flight') <= 1
        /\ \A c \in WritingCategories :
              \/ PagesOf(scraped_pages_by_category', c) = PagesOf(scraped_pages_by_category, c)
              \/ /\ c \notin {in_flight'[k].category : k \in DOMAIN in_flight'}
                 /\ PagesOf(scraped_pages_by_category', c) = <<>>
      ]_vars

\* a write is executing while one worker scrapes and another has finished a
\* page of the category being written
C14_Witness ==
    /\ Len(in_flight) = 1
    /\ \E t \in DOMAIN tasks : tasks[t].state = "running"
    /\ \E t \in DOMAIN tasks :
          /\ tasks[t].state = "finished"
          /\ tasks[t].outcome = "page"
          /\ tasks[t].category = in_flight[1].category

\* the UpdateOne operations the collection has applied, in order: those of
\* every call up to the one that failed
RECURSIVE AppliedOps(_)
AppliedOps(ws) ==
    IF ws = <<>> THEN <<>>
    ELSE LET w == ws[Len(ws)]
         IN  AppliedOps(SubSeq(ws, 1, Len(ws) - 1))
             \o [i \in 1..w.applied |-> [page |-> w.pages[i], category |-> w.category]]

\* the last of the operations ops that satisfies Test
LastOp(ops, Test(_)) ==
    LET hits == SelectSeq(ops, Test) IN hits[Len(hits)]

(* C15. The sink is an upsert keyed by URL: after any sequence of calls of
   save_pages_batch, failed ones included, the collection holds one document
   for each URL written and no other, under the URL as _id, with the fields
   of the last record written for that URL (and the category of the last
   write of it that had one); writing any batch a second time leaves the
   collection as the first write left it; and a call with an empty sequence
   changes nothing and returns 0. *)
C15_UpsertIdempotent ==
    LET ops == AppliedOps(phist.writes) IN
    /\ DOMAIN store = {ops[i].page.url : i \in DOMAIN ops}
    /\ \A u \in DOMAIN store :
          LET last == LastOp(ops, LAMBDA o : o.page.url = u)
              cats == SelectSeq(ops, LAMBDA o : o.page.url = u /\ o.category # NoCategory)
          IN  /\ store[u]._id = u
              /\ store[u].url = last.page.url
              /\ store[u].scraped_at = last.page.scraped_at
              /\ store[u].category =
                    IF cats = <<>> THEN NoCategory ELSE cats[Len(cats)].category
    /\ \A pages \in SinkBatches, category \in SinkCategories :
          LET once == BulkWrite(store, pages, category, Len(pages))
          IN  BulkWrite(once, pages, category, Len(pages)) = once
    /\ \A k \in DOMAIN phist.writes :
          phist.writes[k].pages = <<>> =>
              ~phist.writes[k].changed /\ phist.writes[k].saved = 0

\* a URL written by two calls with different records, the first with a
\* category and the second without: the later record is in the collection,
\* with the category of the first call
C15_Witness ==
    /\ Len(phist.writes) = 2
    /\ phist.writes[1].applied = 1
    /\ phist.writes[2].applied = 1
    /\ phist.writes[1].category = "a"
    /\ phist.writes[2].category = NoCategory
    /\ phist.writes[1].pages[1].url = phist.writes[2].pages[1].url
    /\ phist.writes[1].pages[1] # phist.writes[2].pages[1]
    /\ store[phist.writes[2].pages[1].url].scraped_at = phist.writes[2].pages[1].scraped_at

\* the records this run has appended
RecordsAppended == Cardinality({i \in DOMAIN hist.fetched : hist.fetched[i].ok})

(* C16. Page limit of scrape_website: count is the number of records the
   run has appended; with max_pages > 0 it never exceeds max_pages, and once
   it equals max_pages the run fetches nothing more and leaves the loop with
   the pending URLs as they are; with max_pages = 0 the run leaves the loop
   only when no URL is pending or the byte ceiling is reached. *)
C16_PageLimit ==
    [][ /\ pc' \in Running \cup {"done"} =>
              /\ count' = RecordsAppended'
              /\ max_pages' > 0 => count' <= max_pages'
        /\ (pc = "loop" /\ max_pages > 0 /\ count = max_pages) =>
              /\ ~IsFetch
              /\ pc' \in {"final", "killed"}
              /\ pc' = "final" => to_visit' = to_visit
        /\ (max_pages = 0 /\ pc \in {"loop", "save_pending"} /\ pc' = "final") =>
              to_visit' = <<>> \/ total_scraped_size' >= MAX_TOTAL_SIZE
      ]_vars

\* a run with max_pages = 2 that returned after two pages, below the byte
\* ceiling and with URLs still pending
C16_Witness ==
    /\ pc = "done"
    /\ max_pages = 2
    /\ count = 2
    /\ to_visit # <<>>
    /\ total_scraped_size < MAX_TOTAL_SIZE

\* the text length of the element of the page that page_data was made from
LengthInPage(el) ==
    IF el.via = Fallback THEN full_soup.blocks[el.pos] ELSE full_soup.matches[el.via][el.pos]

\* the greatest text length among the matches of selector i (0: no match)
BestLength(i) ==
    IF full_soup.matches[i] = <<>> THEN 0
    ELSE full_soup.matches[i][ArgMax(full_soup.matches[i])]

\* no match of a selector and no block has more than min_text_length
NothingQualifies ==
    /\ \A i \in DOMAIN main_content_selectors : BestLength(i) <= min_text_length
    /\ \A k \in DOMAIN full_soup.blocks : full_soup.blocks[k] <= min_text_length

(* C17. Extraction failure is never an empty-content success: when no match
   of a selector and no fallback block has text longer than min_text_length,
   scrape_page returns no PageData; and every PageData it returns is made
   from an element of the page with more than min_text_length characters of
   text, and its text is not empty. *)
C17_NoEmptyContentSuccess ==
    scrape_result.called =>
        LET page_data == scrape_result.page_data IN
        /\ NothingQualifies => page_data.none
        /\ ~page_data.none =>
              /\ LengthInPage(page_data.element) > min_text_length
              /\ page_data.text_len > 0

(* C18. Selector priority in extract_main_content: when a selector has a
   match with more than min_text_length characters, the content is taken
   from the first such selector in priority order, whatever the later
   selectors match, and it is a match of that selector of greatest text
   length; the selectors before it have no match, or only matches of at most
   min_text_length characters. *)
C18_SelectorPriority ==
    (scrape_result.called /\ scrape_result.fetch = "ok") =>
        LET page_data == scrape_result.page_data
            qualifying == {i \in DOMAIN main_content_selectors :
                              BestLength(i) > min_text_length}
        IN  qualifying # {} =>
              /\ ~page_data.none
              /\ page_data.element.via \in qualifying
              /\ \A i \in qualifying : page_data.element.via <= i
              /\ page_data.element.len = BestLength(page_data.element.via)
              /\ LengthInPage(page_data.element) = page_data.element.len

\* the first selector is passed over or wins with less text: its best match
\* is the second of its matches, the other selector matches more text
C18_Witness ==
    /\ scrape_result.called
    /\ ~scrape_result.page_data.none
    /\ scrape_result.page_data.element.via = 1
    /\ scrape_result.page_data.element.pos = 2
    /\ BestLength(1) < BestLength(2)

\* the img tags of the content that have an ImageData in the list returned
StoredTags == {images.value[i].tag : i \in DOMAIN images.value}

\* the attribute is present and a number
IsNumeric(a) == a.present /\ ~IntRaises(a.value)

(* C19. Image size filter: of the img tags with a src,
   _extract_images_from_content skips exactly those whose width and height
   are both present and numeric with at least one of them below the minimum
   of 50; a tag whose width or height is absent or not numeric is stored. *)
C19_ImageSizeFilter ==
    images.called =>
        \A k \in DOMAIN content :
            Truthy(content[k].src) =>
                LET width == content[k].width
                    height == content[k].height
                IN  k \notin StoredTags <=>
                        /\ IsNumeric(width)
                        /\ IsNumeric(height)
                        /\ (int(width.value) < min_image_size
                              \/ int(height.value) < min_image_size)

(* C20. Image src resolution: every src stored is an absolute URL: a
   protocol-relative src (//host/path) is resolved to a URL with that host,
   another src starting with / to base_url + src, a src starting with ./ to
   base_url + src without the dot, a src starting with http:// or https://
   is stored as it is, and any other src becomes base_url + "/" + src. *)
C20_ImageSrcAbsolute ==
    images.called =>
        \A i \in DOMAIN images.value :
            LET src == content[images.value[i].tag].src.value
                stored == images.value[i].src
            IN  /\ StartsWith(stored, Http) \/ StartsWith(stored, Https)
                /\ IF StartsWith(src, <<"/", "/">>)
                   THEN stored \in {<<"h", "t", "t", "p", ":">> \o src,
                                    <<"h", "t", "t", "p", "s", ":">> \o src}
                   ELSE IF StartsWith(src, <<"/">>) THEN stored = self_base_url \o src
                   ELSE IF StartsWith(src, <<".", "/">>)
                        THEN stored = self_base_url \o Tail(src)
                   ELSE IF StartsWith(src, Http) \/ StartsWith(src, Https)
                        THEN stored = src
                   ELSE stored = self_base_url \o <<"/">> \o src

\* ---- validate_page_content ----

\* C21: is_valid is true iff the text has at least 100 characters and not
\* (quality_score < 2 and content_density < 0.5); a text of exactly 99
\* characters is invalid with the too-short issue, a text of exactly 100
\* characters with quality_score >= 2 is valid, both issues are recorded when
\* both conditions fail, and the navigation-artifact flag never changes
\* is_valid.
C21_ValidityRule ==
    validation_result.called =>
        LET r == validation_result.value
            chars == TextLen(page_text)
            low == IsLowQuality(r.quality_score, r.content_density)
        IN  /\ r.is_valid <=> (chars >= 100 /\ ~low)
            /\ chars = 99 => ~r.is_valid /\ TooShort \in Range(r.issues)
            /\ chars = 100 /\ r.quality_score >= 2 => r.is_valid
            /\ chars < 100 /\ low => {TooShort, LowQuality} \subseteq Range(r.issues)
            /\ \A k \in NavCounts :
                  LET other == [page_text EXCEPT !.nav = k]
                  IN  other \in Texts =>
                        validate_page_content(other).is_valid = r.is_valid

\* ---- the clean-up of _get_clean_text ----

\* s has three line breaks in a row
HasThreeBreaks(s) ==
    \E i \in 1..(Len(s) - 2) : s[i] = "\n" /\ s[i + 1] = "\n" /\ s[i + 2] = "\n"

\* C23: the clean-up applied to its own output returns the same string, for
\* every input string, and the output never has three line breaks in a row.
C23_CleanTextIdempotent ==
    clean_text.called =>
        /\ CleanUp(clean_text.value) = clean_text.value
        /\ ~HasThreeBreaks(clean_text.value)

\* three line breaks and a tab between two letters came out as two line breaks
C23_Witness ==
    /\ clean_text.called
    /\ raw_text = <<"a", "\n", "\n", "\n", "\t", "a">>
    /\ clean_text.value = <<"a", "\n", "\n", "a">>

\* ---- one page seen by both programs ----

\* scrape_website has processed the page at base_url: one record, and the two
\* links of the page are the whole of pending
OneRecordTwoPending ==
    hist.fetched # <<>> =>
        /\ count = 1
        /\ Len(data) = 1
        /\ data[1].url = base_url
        /\ Len(to_visit) = 2
        /\ Range(to_visit) \in {Range(links) : links \in ScenarioLinks}
        /\ base_url \notin Range(to_visit)

\* C22 as stated: once the page is fetched there is exactly one succeeded
\* page record, its image list is empty, and pending holds exactly two new
\* URLs.
C22_ImageFilteredBySize ==
    /\ OneRecordTwoPending
    /\ (scrape_result.called /\ scrape_result.fetch = "ok") =>
          /\ ~scrape_result.page_data.none
          /\ images.called
          /\ images.value = <<>>

\* C22 as amended: the image list is empty only when the img tag has no src
\* or is no longer in the filtered main content; otherwise it holds that one
\* image, as an img tag without a height is not filtered by size.
C22_ImageWithoutHeightKept ==
    /\ OneRecordTwoPending
    /\ (scrape_result.called /\ scrape_result.fetch = "ok") =>
          /\ ~scrape_result.page_data.none
          /\ images.called
          /\ IF content # <<>> /\ Truthy(content[1].src)
             THEN /\ Len(images.value) = 1
                  /\ images.value[1].src = ResolveSrc(content[1].src.value)
             ELSE images.value = <<>>

\* both programs are done with the page: one record and two pending URLs,
\* and a page record with the image of width 30 in its list
C22_Witness ==
    /\ count = 1
    /\ Len(data) = 1
    /\ to_visit = <<UrlP, UrlPsp>>
    /\ scrape_result.called
    /\ ~scrape_result.page_data.none
    /\ scrape_result.page_data.element.len = 300
    /\ images.called
    /\ content = <<[src |-> Attr(<<"/", "i">>), width |-> Attr(<<"3", "0">>),
                   height |-> NoAttr]>>
    /\ Len(images.value) = 1

\* ---- the output of one run of scrape_website ----

\* the flush files this run has written, in the order written
FilesOfRun == SubSeq(output, hist.outStart + 1, Len(output))

\* the URLs of the records this run has appended to data, in order
AppendedUrls ==
    LET ok == SelectSeq(hist.fetched, LAMBDA f : f.ok)
    IN  [i \in DOMAIN ok |-> ok[i].url]

\* scrape_website has returned and none of its writes raised
ReturnedWithoutIOError == pc = "done" /\ ~hist.ioFailed

\* C24: when a run returns without a flush or checkpoint I/O error, every
\* record appended during the run is in exactly one flush file of the run,
\* and the returned count is the number of records over these files.
C24_ExactlyOnceOutput ==
    ReturnedWithoutIOError =>
        LET written == ConcatUrls(FilesOfRun)
        IN  /\ \A i \in DOMAIN AppendedUrls :
                  Cardinality({j \in DOMAIN written : written[j] = AppendedUrls[i]}) = 1
            /\ Range(written) = Range(AppendedUrls)
            /\ count = Len(written)

\* a run returned after a flush in the loop and a final flush, with three
\* records in the two files
C24_Witness ==
    /\ ReturnedWithoutIOError
    /\ Len(FilesOfRun) = 2
    /\ count = 3

\* ---- skipped and failed URLs across runs ----

\* C25: a URL is marked visited before its fetch is attempted, so a URL whose
\* fetch was skipped or failed is in the visited set written by the next
\* checkpoint and by the final save, and no later run that loads that
\* checkpoint fetches it again.
C25_SkippedNeverRefetched ==
    /\ NotFetchedOk(hist.fetched) \subseteq visited \/ pc = "killed"
    /\ hist.ckptSkipped \subseteq Range(visited_file.lines)
    /\ \A i \in DOMAIN hist.fetched : hist.fetched[i].url \notin hist.loadedSkipped

\* ---- termination of the loop of scrape_website ----

\* the run is in its while loop (lines 93-143)
InLoop == pc \in {"loop", "flush", "save_visited", "save_pending"}

\* the run has left its loop and has not been killed
AfterLoop == pc \in {"final", "final_save_visited", "final_save_pending", "done", "error"}

\* a step that is one pass of the loop body from line 94
IsIteration == pc = "loop" /\ LoopCond

\* C26: over a finite site, with every fetch returning or raising, a run of
\* scrape_website always leaves its loop, for max_pages = 0 as for any other
\* value; each iteration removes one pending entry, no URL is appended to
\* pending twice in a run, and after the loop, with max_pages = 0 and the
\* byte ceiling not reached, pending is empty.
C26_Termination ==
    /\ [](InLoop => <>(~InLoop))
    /\ [](NoDuplicates(hist.appended))
    /\ []((AfterLoop /\ max_pages = 0 /\ total_scraped_size < MAX_TOTAL_SIZE)
            => to_visit = <<>>)
    /\ [][IsIteration =>
            /\ Len(to_visit) >= 1
            /\ Len(to_visit') - Len(to_visit)
                 = Len(hist'.appended) - Len(hist.appended) - 1
            /\ SubSeq(to_visit', 1, Len(to_visit) - 1) = Tail(to_visit)]_vars

\* a run with max_pages = 0 returned below the byte ceiling after three
\* fetches, one of them not a success, with nothing pending
C26_Witness ==
    /\ pc = "done"
    /\ max_pages = 0
    /\ total_scraped_size < MAX_TOTAL_SIZE
    /\ Len(hist.fetched) = 3
    /\ \E i \in 1..3 : ~hist.fetched[i].ok
    /\ Len(hist.appended) = 3
    /\ to_visit = <<>>

-----------------------------------------------------------------------------

\* the state before any of the programs has run
Fresh ==
    /\ ppc = "schedule"
    /\ cat_idx = 1
    /\ tasks = <<>>
    /\ scraped_pages_by_category = EmptyPagesByCategory
    /\ all_scraped_pages = <<>>
    /\ failed_count = 0
    /\ total_entries = 0
    /\ store = <<>>
    /\ in_flight = <<>>
    /\ phist = InitPhist
    /\ visited_file = NoFile
    /\ pending_file = NoFile
    /\ output = <<>>
    /\ pc = "idle"
    /\ max_pages = 0
    /\ visited = {}
    /\ to_visit = <<>>
    /\ data = <<>>
    /\ batch_index = 1
    /\ count = 0
    /\ total_scraped_size = 0
    /\ hist = InitHist
    /\ scrape_result = NotCalled
    /\ images = NotCalled
    /\ validation_result = NotCalled
    /\ clean_text = NotCalled

Init ==
    /\ \/ prog = "crawl" /\ sitemap_entries = <<>>
       \/ prog = "pool" /\ sitemap_entries \in Sitemaps
    /\ full_soup = NoSoup
    /\ content = <<>>
    /\ page_text = <<>>
    /\ raw_text = <<>>
    /\ Fresh

Next == CrawlNext \/ PoolNext

Spec == Init /\ [][Next]_vars

SinkInit ==
    /\ prog = "sink"
    /\ sitemap_entries = <<>>
    /\ full_soup = NoSoup
    /\ content = <<>>
    /\ page_text = <<>>
    /\ raw_text = <<>>
    /\ Fresh

SinkSpec == SinkInit /\ [][SinkNext]_vars

PageInit ==
    /\ prog = "page"
    /\ sitemap_entries = <<>>
    /\ full_soup \in Soups
    /\ content = <<>>
    /\ page_text = <<>>
    /\ raw_text = <<>>
    /\ Fresh

PageSpec == PageInit /\ [][PageNext]_vars

ImageInit ==
    /\ prog = "images"
    /\ sitemap_entries = <<>>
    /\ full_soup = NoSoup
    /\ content \in SeqsUpTo(ImgTags, MaxImages)
    /\ page_text = <<>>
    /\ raw_text = <<>>
    /\ Fresh

ImageSpec == ImageInit /\ [][ImageNext]_vars

ValidatorInit ==
    /\ prog = "validator"
    /\ sitemap_entries = <<>>
    /\ full_soup = NoSoup
    /\ content = <<>>
    /\ page_text \in Texts
    /\ raw_text = <<>>
    /\ Fresh

ValidatorSpec == ValidatorInit /\ [][ValidatorNext]_vars

TextInit ==
    /\ prog = "text"
    /\ sitemap_entries = <<>>
    /\ full_soup = NoSoup
    /\ content = <<>>
    /\ page_text = <<>>
    /\ raw_text \in SeqsUpTo(Chars, MaxTextLen)
    /\ Fresh

TextSpec == TextInit /\ [][TextNext]_vars

ScenarioInit ==
    /\ prog = "scenario"
    /\ sitemap_entries = <<>>
    /\ full_soup \in ScenarioSoups
    /\ content \in ScenarioContents
    /\ page_text = <<>>
    /\ raw_text = <<>>
    /\ Fresh

ScenarioSpec == ScenarioInit /\ [][ScenarioNext]_vars

ResumeInit ==
    /\ prog = "resume"
    /\ sitemap_entries = <<>>
    /\ full_soup = NoSoup
    /\ content = <<>>
    /\ page_text = <<>>
    /\ raw_text = <<>>
    /\ Fresh

ResumeSpec == ResumeInit /\ [][CrawlNext]_vars

CrawlInit ==
    /\ prog = "crawl"
    /\ sitemap_entries = <<>>
    /\ full_soup = NoSoup
    /\ content = <<>>
    /\ page_text = <<>>
    /\ raw_text = <<>>
    /\ Fresh

\* scrape_website run after run by a process that is neither killed nor held
\* up for ever: a started run goes on step by step until it returns or raises
FairNext == StartRun \/ ProgramStep

FairSpec == CrawlInit /\ [][FairNext]_vars /\ WF_vars(ProgramStep)

====
